---- MODULE Spec2Model ----
(***************************************************************************)
(* Model of netlink-bindings/src/utils.rs: the netlink attribute (TLV)     *)
(* header writer, the header reader chop_header, the decode cursor         *)
(* Iterable with its error contexts, and the two iterator adapters.        *)
(*                                                                         *)
(* Bytes are integers 0..255, buffers are sequences of bytes (index 1 is   *)
(* byte offset 0).  u16 arithmetic is kept modulo 2^16.                    *)
(***************************************************************************)
EXTENDS Integers, Sequences, FiniteSets, TLC

VARIABLES
    le,               \* target endianness: TRUE = little endian (to_ne_bytes / parse_u16)
    overflow_checks,  \* build checks integer overflow (debug) or wraps (release)
    cfg_test,         \* cfg!(test): error construction panics instead of returning
    \* ---- writer: a Vec<u8> being built by the push_* functions
    wbuf,             \* the Vec<u8>
    wret,             \* value returned by the last push_header / push_nested_header (-1: none)
    wlast,            \* the writer call that produced this state
    woffs,            \* the header offsets the caller holds (returned so far)
    wnest,            \* nested headers not yet finalized: set of [off, type]
    warg,             \* the len (push_header) or offset (finalize_nested_header) of the last call
    wstack,           \* history: open nested records, innermost last, with their finished children
    wpend,            \* history: the plain record whose payload is being appended
    wok,              \* history: the caller followed the write_header/payload/finalize discipline
    \* ---- reader: one call site of chop_header(buf, &mut pos)
    rbuf, rpos, rres,
    rcount,           \* history: records returned so far by this walk
    \* ---- cursor: one Iterable
    cbuf,             \* Iterable.buf (contents)
    cloc,             \* Iterable.buf.as_ptr() as usize
    cpos,             \* Iterable.pos
    corig,            \* Iterable.orig_loc
    cres,             \* result of the last call on the cursor
    cpoisoned,        \* history: error_context has been called
    \* ---- adapters: one MultiAttrIterable or ArrayIterable
    akind,            \* "multi" (MultiAttrIterable) or "array" (ArrayIterable)
    af,               \* MultiAttrIterable.f: the values it maps to Some
    ainner,           \* the items the inner iterator yields, in order
    aidx,             \* how many items the inner iterator has yielded
    aout,             \* history: what each pull on the adapter returned, and why
    ares,             \* what the last pull returned
    \* ---- primitives: one input handed to nla_align_up and nla_type
    pin,              \* the input
    palign,           \* nla_align_up(pin), -1 before the call
    pagain,           \* nla_align_up(palign), -1 before the call
    ptype,            \* nla_type(pin), -1 before the call
    \* ---- two cursors over one source buffer
    theap,            \* memory the cursors refer to: the slices "src" and "empty" (&[])
    tinit,            \* history: the memory and the cursors when the cursors were created
    tcur,             \* the two Iterable values
    ttrace            \* history: the calls made, in order: which cursor, the call, the result

buildVars == <<le, overflow_checks, cfg_test>>
writerVars == <<wbuf, wret, wlast, woffs, wnest, warg, wstack, wpend, wok>>
readerVars == <<rbuf, rpos, rres, rcount>>
cursorVars == <<cbuf, cloc, cpos, corig, cres, cpoisoned>>
adapterVars == <<akind, af, ainner, aidx, aout, ares>>
primVars == <<pin, palign, pagain, ptype>>
twoVars == <<theap, tinit, tcur, ttrace>>
extraVars == <<primVars, twoVars>>
vars == <<buildVars, writerVars, readerVars, cursorVars, adapterVars, extraVars>>

(***************************************************************************)
(* Bounds of the model                                                     *)
(***************************************************************************)
MaxEnc == 20          \* longest writer buffer while the caller keeps the discipline, in bytes
MaxBuf == 8           \* longest writer buffer once the caller has broken it, in bytes
MaxBulkAt == 4        \* longest writer buffer a large payload is appended to, in bytes
BulkLen == 65532      \* size of the largest payload, in bytes
MaxRead == 8          \* longest buffer handed to chop_header, in bytes
MaxStart == 1         \* largest in-range position a chop_header walk is started from
MaxInner == 3         \* longest inner sequence under an adapter
MaxPulls == 4         \* pulls made on an adapter
MaxPrim == 66000      \* largest input handed to nla_align_up
MaxCalls == 4         \* calls made on the two cursors over one buffer, in total

(***************************************************************************)
(* Integer helpers                                                         *)
(***************************************************************************)
U16 == 65536
UsizeMax == 2147483647

RECURSIVE BitAnd(_, _)
BitAnd(a, b) ==
    IF a = 0 \/ b = 0 THEN 0
    ELSE (a % 2) * (b % 2) + 2 * BitAnd(a \div 2, b \div 2)

BitOr(a, b) == a + b - BitAnd(a, b)

Not16(a) == (U16 - 1) - a
NotUsize(a) == UsizeMax - a

Min(a, b) == IF a <= b THEN a ELSE b

Zeros(n) == [i \in 1..n |-> 0]

\* u16::to_ne_bytes
to_ne_bytes(v) ==
    IF le THEN <<v % 256, v \div 256>> ELSE <<v \div 256, v % 256>>

\* primitives::parse_u16 (native byte order)
parse_u16(bs) ==
    IF Len(bs) # 2 THEN -1
    ELSE IF le THEN bs[1] + 256 * bs[2] ELSE 256 * bs[1] + bs[2]

\* &buf[from..to] with 0-based half-open byte offsets
Slice(buf, from, to) == SubSeq(buf, from + 1, to)

(***************************************************************************)
(* Alignment primitives                                                    *)
(***************************************************************************)
NLA_F_NESTED == 32768
NLA_F_NET_BYTEORDER == 16384
NLA_ALIGNTO == 4

\* nla_type that clears the nested flag only
nla_type_nested_only(type) == BitAnd(type, Not16(NLA_F_NESTED))

nla_type(type) == BitAnd(type, Not16(BitOr(NLA_F_NESTED, NLA_F_NET_BYTEORDER)))

nla_align_up(len) == BitAnd(len + NLA_ALIGNTO - 1, NotUsize(NLA_ALIGNTO - 1))

align(buf) == buf \o Zeros(nla_align_up(Len(buf)) - Len(buf))

(***************************************************************************)
(* Header writer                                                           *)
(***************************************************************************)
\* push_header_type without the leading align(buf)
push_header_type_noalign(buf, type, len, is_nested) ==
    LET header_offset == Len(buf)
        ty == IF is_nested THEN BitOr(type, NLA_F_NESTED) ELSE type
    IN  IF len + 4 >= U16 /\ overflow_checks
        THEN [panic |-> TRUE, buf |-> buf, ret |-> header_offset]
        ELSE [panic |-> FALSE,
              buf |-> align(buf \o to_ne_bytes((len + 4) % U16) \o to_ne_bytes(ty)),
              ret |-> header_offset]

\* Result: the buffer afterwards, the returned header offset, and whether
\* the u16 addition len + 4 overflowed in a build that checks overflow.
push_header_type(buf, type, len, is_nested) ==
    LET b1 == align(buf)
        header_offset == Len(b1)
        ty == IF is_nested THEN BitOr(type, NLA_F_NESTED) ELSE type
    IN  IF len + 4 >= U16 /\ overflow_checks
        THEN [panic |-> TRUE, buf |-> b1, ret |-> header_offset]
        ELSE [panic |-> FALSE,
              buf |-> align(b1 \o to_ne_bytes((len + 4) % U16) \o to_ne_bytes(ty)),
              ret |-> header_offset]

\* push_nested_header that forgets the nested flag
push_nested_header_plain(buf, type) == push_header_type(buf, type, 0, FALSE)

push_nested_header(buf, type) == push_header_type(buf, type, 0, TRUE)

\* push_header that stores the payload length instead of the record length
push_header_paylen(buf, type, len) ==
    LET r == push_header_type(buf, type, len, FALSE)
    IN  IF r.panic THEN r
        ELSE [r EXCEPT !.buf = [i \in 1..Len(r.buf) |->
                                   IF i = r.ret + 1 THEN to_ne_bytes(len % U16)[1]
                                   ELSE IF i = r.ret + 2 THEN to_ne_bytes(len % U16)[2]
                                   ELSE r.buf[i]]]

push_header(buf, type, len) == push_header_type(buf, type, len, FALSE)

\* finalize_nested_header that stores the length of the children only
finalize_nested_header_children(buf, offset) ==
    LET b1 == align(buf)
        len == (Len(b1) - offset - 4) % U16
        bs == to_ne_bytes(len)
    IN  IF offset > Len(b1) \/ offset + 2 > Len(b1)
        THEN [panic |-> TRUE, buf |-> b1]
        ELSE [panic |-> FALSE,
              buf |-> [i \in 1..Len(b1) |->
                          IF i = offset + 1 THEN bs[1]
                          ELSE IF i = offset + 2 THEN bs[2]
                          ELSE b1[i]]]

\* buf.len() - offset is a usize subtraction; buf[offset..offset + 2] is a checked slice.
finalize_nested_header(buf, offset) ==
    LET b1 == align(buf)
        len == (Len(b1) - offset) % U16
        bs == to_ne_bytes(len)
    IN  IF offset > Len(b1) \/ offset + 2 > Len(b1)
        THEN [panic |-> TRUE, buf |-> b1]
        ELSE [panic |-> FALSE,
              buf |-> [i \in 1..Len(b1) |->
                          IF i = offset + 1 THEN bs[1]
                          ELSE IF i = offset + 2 THEN bs[2]
                          ELSE b1[i]]]

(***************************************************************************)
(* Header reader                                                           *)
(***************************************************************************)
NoneRes == [kind |-> "None", type |-> 0, is_nested |-> FALSE, next |-> <<>>]

\* chop_header that also rejects a record with an empty payload (len <= 4)
chop_header_le4(buf0, pos) ==
    IF pos > Len(buf0)
    THEN [NoneRes EXCEPT !.kind = "panic"] @@ [pos |-> pos]
    ELSE
    LET buf == Slice(buf0, pos, Len(buf0))
    IN  IF Len(buf) < 4 THEN NoneRes @@ [pos |-> pos]
        ELSE
        LET len == parse_u16(Slice(buf, 0, 2))
            type == parse_u16(Slice(buf, 2, 4))
            next_len == nla_align_up(len)
        IN  IF len <= 4 \/ Len(buf) < len THEN NoneRes @@ [pos |-> pos]
            ELSE [kind |-> "Some",
                  type |-> nla_type(type),
                  is_nested |-> BitAnd(type, NLA_F_NESTED) # 0,
                  next |-> Slice(buf, 4, len),
                  pos |-> pos + Min(next_len, Len(buf))]

\* chop_header that advances by the aligned payload length only
chop_header_payload_advance(buf0, pos) ==
    IF pos > Len(buf0)
    THEN [NoneRes EXCEPT !.kind = "panic"] @@ [pos |-> pos]
    ELSE
    LET buf == Slice(buf0, pos, Len(buf0))
    IN  IF Len(buf) < 4 THEN NoneRes @@ [pos |-> pos]
        ELSE
        LET len == parse_u16(Slice(buf, 0, 2))
            type == parse_u16(Slice(buf, 2, 4))
            next_len == nla_align_up(len - 4)
        IN  IF len < 4 \/ Len(buf) < len THEN NoneRes @@ [pos |-> pos]
            ELSE [kind |-> "Some",
                  type |-> nla_type(type),
                  is_nested |-> BitAnd(type, NLA_F_NESTED) # 0,
                  next |-> Slice(buf, 4, len),
                  pos |-> pos + Min(next_len, Len(buf))]

\* chop_header that advances by the aligned length without clamping
chop_header_noclamp(buf0, pos) ==
    IF pos > Len(buf0)
    THEN [NoneRes EXCEPT !.kind = "panic"] @@ [pos |-> pos]
    ELSE
    LET buf == Slice(buf0, pos, Len(buf0))
    IN  IF Len(buf) < 4 THEN NoneRes @@ [pos |-> pos]
        ELSE
        LET len == parse_u16(Slice(buf, 0, 2))
            type == parse_u16(Slice(buf, 2, 4))
            next_len == nla_align_up(len)
        IN  IF len < 4 \/ Len(buf) < len THEN NoneRes @@ [pos |-> pos]
            ELSE [kind |-> "Some",
                  type |-> nla_type(type),
                  is_nested |-> BitAnd(type, NLA_F_NESTED) # 0,
                  next |-> Slice(buf, 4, len),
                  pos |-> pos + next_len]

\* Result: what the call returns (kind "Some" | "None" | "panic"), and the
\* value of *pos afterwards.
chop_header(buf0, pos) ==
    IF pos > Len(buf0)
    THEN [NoneRes EXCEPT !.kind = "panic"] @@ [pos |-> pos]
    ELSE
    LET buf == Slice(buf0, pos, Len(buf0))
    IN  IF Len(buf) < 4 THEN NoneRes @@ [pos |-> pos]
        ELSE
        LET len == parse_u16(Slice(buf, 0, 2))
            type == parse_u16(Slice(buf, 2, 4))
            next_len == nla_align_up(len)
        IN  IF len < 4 \/ Len(buf) < len THEN NoneRes @@ [pos |-> pos]
            ELSE [kind |-> "Some",
                  type |-> nla_type(type),
                  is_nested |-> BitAnd(type, NLA_F_NESTED) # 0,
                  next |-> Slice(buf, 4, len),
                  pos |-> pos + Min(next_len, Len(buf))]

(***************************************************************************)
(* Idle values of the components a specification does not exercise         *)
(***************************************************************************)
Root == [off |-> -1, type |-> 0, kids |-> <<>>]
NoPend == [active |-> FALSE, type |-> 0, len |-> 0, data |-> <<>>]

WriterIdle ==
    /\ wbuf = <<>> /\ wret = -1 /\ wlast = "new" /\ woffs = {} /\ wnest = {}
    /\ warg = -1
    /\ wstack = <<Root>> /\ wpend = NoPend /\ wok = TRUE

NewRes == [kind |-> "new", type |-> 0, is_nested |-> FALSE, next |-> <<>>, pos |-> 0, from |-> 0]

ReaderIdle == rbuf = <<>> /\ rpos = 0 /\ rres = NewRes /\ rcount = 0

NoCall == [op |-> "new", kind |-> "new"]

CursorIdle ==
    /\ cbuf = <<>> /\ cloc = 0 /\ cpos = 0 /\ corig = 0
    /\ cres = NoCall /\ cpoisoned = FALSE

PrimIdle == pin = 0 /\ palign = -1 /\ pagain = -1 /\ ptype = -1

TwoIdle == theap = <<>> /\ tinit = <<>> /\ tcur = <<>> /\ ttrace = <<>>

ExtraIdle == PrimIdle /\ TwoIdle

AdapterIdle ==
    /\ akind = "array" /\ af = {} /\ ainner = <<>> /\ aidx = 0
    /\ aout = <<>> /\ ares = [some |-> FALSE, v |-> 0]

(***************************************************************************)
(* Writer: the calls an encoder makes on its Vec<u8>                       *)
(***************************************************************************)
Types == {5, 32773}                \* 32773 = 0x8005 breaks the type_id < 2^14 contract
\* payload lengths: BulkLen + 4 does not fit a u16; BulkLen - 4 fits, and one
\* such child fills a nested record up to 2^16 bytes
Lens == {0, 3, BulkLen - 4, BulkLen}
BulkLens == {BulkLen - 4, BulkLen}
PayloadBytes == {1, 255}

MkRec(type, nested, payload, kids) ==
    [type |-> type, nested |-> nested, payload |-> payload, kids |-> kids]

\* the buffer length up to which the writer is explored
Cap == IF wok THEN MaxEnc ELSE MaxBuf

PendDone == wpend.active /\ Len(wpend.data) = wpend.len

AddKid(st, rec) == [st EXCEPT ![Len(st)].kids = Append(@, rec)]

\* the history once the record being appended (if complete) is closed
Committed ==
    IF PendDone THEN AddKid(wstack, MkRec(wpend.type, FALSE, wpend.data, <<>>))
    ELSE wstack

\* history variables are reset once the discipline is broken
SetHistory(ok, stack, pend) ==
    /\ wok' = ok
    /\ wstack' = IF ok THEN stack ELSE <<Root>>
    /\ wpend' = IF ok THEN pend ELSE NoPend

WPushHeader(type, len) ==
    /\ wlast # "panic"
    /\ Len(align(wbuf)) + 4 <= Cap
    /\ LET r == push_header(wbuf, type, len)
       IN  /\ wbuf' = r.buf
           /\ wret' = IF r.panic THEN -1 ELSE r.ret
           /\ wlast' = IF r.panic THEN "panic" ELSE "push_header"
           /\ woffs' = IF r.panic THEN woffs ELSE woffs \cup {r.ret}
           /\ wnest' = wnest
           /\ warg' = len
           /\ SetHistory(/\ wok /\ ~r.panic
                         /\ (~wpend.active \/ PendDone)
                         /\ type < NLA_F_NET_BYTEORDER /\ len + 4 < U16,
                         Committed,
                         [active |-> TRUE, type |-> type, len |-> len, data |-> <<>>])
    /\ UNCHANGED <<extraVars, buildVars, readerVars, cursorVars, adapterVars>>

WPushNestedHeader(type) ==
    /\ wlast # "panic"
    /\ Len(align(wbuf)) + 4 <= Cap
    /\ LET r == push_nested_header(wbuf, type)
       IN  /\ wbuf' = r.buf
           /\ wret' = IF r.panic THEN -1 ELSE r.ret
           /\ wlast' = IF r.panic THEN "panic" ELSE "push_nested_header"
           /\ woffs' = IF r.panic THEN woffs ELSE woffs \cup {r.ret}
           /\ wnest' = IF r.panic THEN wnest
                       ELSE wnest \cup {[off |-> r.ret, type |-> type]}
           /\ warg' = -1
           /\ SetHistory(/\ wok /\ ~r.panic
                         /\ (~wpend.active \/ PendDone)
                         /\ type < NLA_F_NET_BYTEORDER,
                         Append(Committed, [off |-> r.ret, type |-> type, kids |-> <<>>]),
                         NoPend)
    /\ UNCHANGED <<extraVars, buildVars, readerVars, cursorVars, adapterVars>>

\* the caller appends one raw payload byte (buf.push / buf.extend)
WAppend(b) ==
    /\ wlast # "panic"
    /\ Len(wbuf) < Cap
    /\ ~(wok /\ wpend.active /\ wpend.len \in BulkLens)   \* appended in one piece
    /\ wbuf' = Append(wbuf, b)
    /\ wret' = -1
    /\ wlast' = "append"
    /\ UNCHANGED <<woffs, wnest>>
    /\ warg' = -1
    /\ SetHistory(wok /\ wpend.active /\ Len(wpend.data) < wpend.len,
                  wstack,
                  [wpend EXCEPT !.data = Append(@, b)])
    /\ UNCHANGED <<extraVars, buildVars, readerVars, cursorVars, adapterVars>>

\* the large payload is the one the last push_header announced
BulkFits(n) == wok /\ wpend.active /\ wpend.data = <<>> /\ wpend.len = n

\* the caller appends one large payload of n zero bytes (buf.extend): the
\* announced payload of a record near the start of the buffer, or BulkLen
\* raw bytes
WAppendBulk(n) ==
    /\ wlast # "panic"
    /\ \/ BulkFits(n) /\ Len(wbuf) <= MaxBulkAt + 4
       \/ ~BulkFits(n) /\ n = BulkLen /\ Len(wbuf) <= MaxBulkAt
    /\ wbuf' = wbuf \o Zeros(n)
    /\ wret' = -1
    /\ wlast' = "append"
    /\ UNCHANGED <<woffs, wnest>>
    /\ warg' = -1
    /\ SetHistory(BulkFits(n),
                  wstack,
                  [wpend EXCEPT !.data = Zeros(n)])
    /\ UNCHANGED <<extraVars, buildVars, readerVars, cursorVars, adapterVars>>

WAlign ==
    /\ wlast # "panic"
    /\ Len(align(wbuf)) <= Cap \/ Len(wbuf) >= BulkLen - 4
    /\ wbuf' = align(wbuf)
    /\ wret' = -1
    /\ wlast' = "align"
    /\ UNCHANGED <<woffs, wnest>>
    /\ warg' = -1
    /\ SetHistory(wok /\ (wpend.active /\ ~PendDone => Len(wbuf) % NLA_ALIGNTO = 0),
                  Committed,
                  IF PendDone THEN NoPend ELSE wpend)
    /\ UNCHANGED <<extraVars, buildVars, readerVars, cursorVars, adapterVars>>

WFinalizeNested(off) ==
    /\ wlast # "panic"
    /\ off \in woffs
    /\ Len(align(wbuf)) <= Cap \/ Len(wbuf) >= BulkLen - 4
    /\ LET r == finalize_nested_header(wbuf, off)
           st == Committed
           top == st[Len(st)]
       IN  /\ wbuf' = r.buf
           /\ wret' = -1
           /\ wlast' = IF r.panic THEN "panic" ELSE "finalize_nested_header"
           /\ woffs' = woffs
           /\ wnest' = IF r.panic THEN wnest ELSE {n \in wnest : n.off # off}
           /\ warg' = off
           /\ SetHistory(/\ wok /\ ~r.panic
                         /\ (~wpend.active \/ PendDone)
                         /\ Len(st) > 1 /\ top.off = off,
                         IF Len(st) > 1
                         THEN AddKid(SubSeq(st, 1, Len(st) - 1),
                                     MkRec(top.type, TRUE, <<>>, top.kids))
                         ELSE st,
                         NoPend)
    /\ UNCHANGED <<extraVars, buildVars, readerVars, cursorVars, adapterVars>>

InitWriter ==
    /\ le \in BOOLEAN /\ overflow_checks \in BOOLEAN /\ cfg_test = FALSE
    /\ WriterIdle /\ ReaderIdle /\ CursorIdle /\ AdapterIdle /\ ExtraIdle

NextWriter ==
    \/ \E type \in Types, len \in Lens : WPushHeader(type, len)
    \/ \E type \in Types : WPushNestedHeader(type)
    \/ \E b \in PayloadBytes : WAppend(b)
    \/ \E n \in BulkLens : WAppendBulk(n)
    \/ WAlign
    \/ \E off \in woffs : WFinalizeNested(off)

SpecWriter == InitWriter /\ [][NextWriter]_vars

(***************************************************************************)
(* Walking a buffer with chop_header, as a decoder does                    *)
(***************************************************************************)
RECURSIVE Walk(_, _)
Walk(buf, pos) ==
    LET r == chop_header(buf, pos)
    IN  IF r.kind = "Some" THEN <<r>> \o Walk(buf, r.pos) ELSE <<>>

RECURSIVE DecodeTree(_)
DecodeTree(buf) ==
    LET w == Walk(buf, 0)
    IN  [i \in 1..Len(w) |->
            IF w[i].is_nested
            THEN MkRec(w[i].type, TRUE, <<>>, DecodeTree(w[i].next))
            ELSE MkRec(w[i].type, FALSE, w[i].next, <<>>)]

DecodeFlat(buf) ==
    LET w == Walk(buf, 0)
    IN  [i \in 1..Len(w) |-> MkRec(w[i].type, w[i].is_nested, w[i].next, <<>>)]

(***************************************************************************)
(* Claims about the writer and the round trip                              *)
(***************************************************************************)
KidsOfRoot == wstack[1].kids

Closed == wok /\ ~wpend.active /\ Len(wstack) = 1

Flat(kids) == \A i \in 1..Len(kids) : ~kids[i].nested

\* C1: a buffer built by push_header, payload bytes and padding, repeated,
\* with type ids below 2^14, decodes by repeated chop_header from position 0
\* to exactly the records written, in order, with nested = false, and then
\* to end-of-stream.
C1_FlatRoundTrip ==
    (Closed /\ Flat(KidsOfRoot)) => DecodeFlat(wbuf) = KidsOfRoot

C1_Witness ==
    /\ Closed /\ Flat(KidsOfRoot) /\ Len(KidsOfRoot) >= 2
    /\ KidsOfRoot[1].payload = <<1, 255, 1>>
    /\ KidsOfRoot[2].payload = <<255, 255, 1>>

\* C2: once every nested header has been finalized innermost-first, the
\* buffer decodes to the tree that was written: nested records come back
\* with nested = true and their type id, and walking their payload gives
\* exactly their children, in order, then end-of-stream.
C2_NestedRoundTrip ==
    Closed => DecodeTree(wbuf) = KidsOfRoot

C2_Witness ==
    /\ Closed
    /\ \E i \in 1..Len(KidsOfRoot) :
          /\ KidsOfRoot[i].nested
          /\ Len(KidsOfRoot[i].kids) = 2
          /\ \E j \in 1..2 : Len(KidsOfRoot[i].kids[j].payload) = 3

\* C3: every offset returned by push_header / push_nested_header is a
\* multiple of 4, and the buffer length is a multiple of 4 right after
\* push_header, push_nested_header, finalize_nested_header and align,
\* whatever raw appends came in between.
C3_Aligned ==
    /\ wlast \in {"push_header", "push_nested_header"}
          => wret >= 0 /\ wret % NLA_ALIGNTO = 0
    /\ wlast \in {"push_header", "push_nested_header", "finalize_nested_header", "align"}
          => Len(wbuf) % NLA_ALIGNTO = 0
    /\ \A off \in woffs : off % NLA_ALIGNTO = 0

C3_Witness ==
    /\ wlast = "push_header" /\ wret = 4 /\ ~wok
    /\ wbuf[1] = 255 /\ wbuf[2] = 0

LenField(off) == parse_u16(Slice(wbuf, off, off + 2))
TypeField(off) == parse_u16(Slice(wbuf, off + 2, off + 4))

\* C9 as stated: a nested header that has not been finalized holds the
\* length 0 and the type with bit 15 set.
C9_PlaceholderZero ==
    \A n \in wnest :
        /\ LenField(n.off) = 0
        /\ TypeField(n.off) = BitOr(n.type, NLA_F_NESTED)

\* what push_nested_header and push_header with an empty payload make of
\* the same buffer: the same offset and the same bytes, but for the type field
SameButNestedFlag(buf, type) ==
    LET n == push_nested_header(buf, type)
        p == push_header(buf, type, 0)
    IN  /\ ~n.panic /\ ~p.panic
        /\ n.ret = p.ret
        /\ Len(n.buf) = Len(p.buf)
        /\ \A i \in 1..Len(n.buf) :
              i \notin {n.ret + 3, n.ret + 4} => n.buf[i] = p.buf[i]
        /\ parse_u16(Slice(n.buf, n.ret + 2, n.ret + 4))
              = BitOr(parse_u16(Slice(p.buf, p.ret + 2, p.ret + 4)), NLA_F_NESTED)

\* C9 amended: push_nested_header does what push_header does for an empty
\* payload, except that the type field has bit 15 set; a nested header
\* that has not been finalized holds the length 4 (header only) and the
\* type with bit 15 set.
C9_PlaceholderFour ==
    /\ \A n \in wnest :
          /\ LenField(n.off) = 4
          /\ TypeField(n.off) = BitOr(n.type, NLA_F_NESTED)
    /\ \A type \in Types : SameButNestedFlag(wbuf, type)

C9_Witness ==
    \E n \in wnest :
        /\ n.type = 5
        /\ Len(wbuf) >= n.off + 8
        /\ wlast = "finalize_nested_header"

\* C15: finalize_nested_header pads the buffer and then stores exactly
\* (padded buffer length - offset) in the length field at the offset,
\* whatever the size of the children, changing no other byte but the
\* padding it appends; push_header stores exactly len + 4 in the length
\* field, for every 16-bit len.
C15_ExactLength ==
    [][/\ wlast' = "finalize_nested_header" =>
            /\ LenField(warg)' = Len(wbuf') - warg'
            /\ \A i \in 1..Len(wbuf') :
                  i \notin {warg' + 1, warg' + 2} =>
                      wbuf'[i] = IF i <= Len(wbuf) THEN wbuf[i] ELSE 0
       /\ wlast' = "push_header" => LenField(wret)' = warg' + 4]_vars

TypeOKWriter == Len(wbuf) <= MaxEnc \/ Len(wbuf) >= BulkLen - 4

(***************************************************************************)
(* Reader: repeated chop_header(buf, &mut pos) on an arbitrary buffer      *)
(***************************************************************************)
RBytes == {0, 4, 7, 192}

RECURSIVE SeqsUpTo(_, _)
SeqsUpTo(S, n) ==
    IF n = 0 THEN {<<>>}
    ELSE LET shorter == SeqsUpTo(S, n - 1)
         IN  shorter \cup {Append(q, x) : q \in {t \in shorter : Len(t) = n - 1}, x \in S}

\* one call chop_header(rbuf, &mut rpos); a panic ends the walk
RChop ==
    /\ rres.kind # "panic"
    /\ LET r == chop_header(rbuf, rpos)
       IN  /\ rres' = r @@ [from |-> rpos]
           /\ rpos' = r.pos
           /\ rcount' = IF r.kind = "Some" THEN rcount + 1 ELSE rcount
    /\ UNCHANGED <<rbuf, extraVars, buildVars, writerVars, cursorVars, adapterVars>>

InitReader ==
    /\ le \in BOOLEAN /\ overflow_checks = FALSE /\ cfg_test = FALSE
    /\ rbuf \in SeqsUpTo(RBytes, MaxRead)
    /\ rpos \in {p \in 0..(Len(rbuf) + 1) : p <= MaxStart \/ p = Len(rbuf) + 1}
    /\ rres = NewRes /\ rcount = 0
    /\ WriterIdle /\ CursorIdle /\ AdapterIdle /\ ExtraIdle

NextReader == RChop

SpecReader == InitReader /\ [][NextReader]_vars

TypeOKReader == Len(rbuf) <= MaxRead

(***************************************************************************)
(* Claims about chop_header                                                *)
(***************************************************************************)
\* what the last call saw: the bytes from its position on, and the length
\* its header declares
Remaining == Len(rbuf) - rres.from
Declared ==
    IF le THEN rbuf[rres.from + 1] + 256 * rbuf[rres.from + 2]
    ELSE 256 * rbuf[rres.from + 1] + rbuf[rres.from + 2]

RoundUp4(n) == ((n + 3) \div 4) * 4

\* C4: called with position <= buffer length, chop_header returns None (and
\* does not panic) when fewer than 4 bytes remain, when the declared length
\* is below 4, or when it exceeds the bytes remaining; in every other case
\* it returns a record.
C4_EndOfStream ==
    (rres.kind # "new" /\ rres.from <= Len(rbuf)) =>
        IF Remaining < 4 THEN rres.kind = "None"
        ELSE IF Declared < 4 \/ Declared > Remaining THEN rres.kind = "None"
        ELSE rres.kind = "Some"

\* a header with length exactly 4 (empty payload) read at an unaligned position
C4_Witness ==
    /\ rres.kind = "Some" /\ rres.from = 1 /\ Declared = 4 /\ Remaining = 5

\* C5: a successful chop_header returns the (length - 4) bytes after the
\* header and moves the position to min(old + align_up(length), buffer
\* length); the position never exceeds the buffer length after a call
\* that started at or before the end.
C5_PayloadAndAdvance ==
    /\ rres.kind = "Some" =>
          /\ Len(rres.next) = Declared - 4
          /\ \A i \in 1..Len(rres.next) : rres.next[i] = rbuf[rres.from + 4 + i]
          /\ rpos = Min(rres.from + RoundUp4(Declared), Len(rbuf))
    /\ rres.kind \in {"Some", "None"} => rpos <= Len(rbuf)

\* a 7-byte record in the last 7 bytes: the advance of 8 is clamped
C5_Witness ==
    /\ rres.kind = "Some" /\ Declared = 7 /\ Remaining = 7
    /\ rres.next = <<192, 7, 4>> /\ rpos = Len(rbuf)

\* C14: a successful chop_header moves the position forward by at least
\* 4 and a None leaves it where it was, so a walk returns at most
\* floor(buffer length / 4) records, and once it has returned None the
\* next call returns None again.
C14_WalkTerminates ==
    /\ rres.kind = "Some" => rpos >= rres.from + 4
    /\ rres.kind = "None" =>
          LET again == chop_header(rbuf, rpos)
          IN  rpos = rres.from /\ again.kind = "None" /\ again.pos = rpos
    /\ rcount <= Len(rbuf) \div 4

\* two records walked, then end-of-stream at the end of the buffer
C14_Witness ==
    /\ rcount = 2 /\ rres.kind = "None" /\ rpos = 8 /\ Len(rbuf) = 8

(***************************************************************************)
(* Decode cursor: Iterable                                                 *)
(***************************************************************************)
U16_MAX == 65535

None == [some |-> FALSE, v |-> ""]
Some(x) == [some |-> TRUE, v |-> x]

\* Iterable::calc_offset with an exclusive upper limit
calc_offset_exclusive(loc) ==
    LET orig == corig
    IN  IF orig <= loc /\ loc - orig < U16_MAX THEN loc - orig ELSE 0

\* Iterable::calc_offset(&self, loc)
calc_offset(loc) ==
    LET orig == corig
    IN  IF orig <= loc /\ loc - orig <= U16_MAX THEN loc - orig ELSE 0

\* the ErrorContext built by Iterable::error_missing(&self, attrs, attr)
error_missing(attrs, attr) ==
    [attrs |-> attrs, attr |-> Some(attr),
     offset |-> calc_offset(cloc), reason |-> "AttrMissing"]

\* error_context that reports every failure as a parsing error
error_context_parsing(attrs, attr, loc) ==
    [attrs |-> attrs, attr |-> attr,
     offset |-> calc_offset(loc),
     reason |-> "ParsingError"]

\* the ErrorContext built by Iterable::error_context(&mut self, attrs, attr, loc)
error_context(attrs, attr, loc) ==
    [attrs |-> attrs, attr |-> attr,
     offset |-> calc_offset(loc),
     reason |-> IF attr.some THEN "ParsingError" ELSE "UnknownAttr"]

\* Iterable::get_buf(&self)
get_buf == cbuf

\* the buffers cursors are created over: two records, the first with a
\* payload; the same cut short; one empty record; nothing
TwoRecords ==
    align(push_header(<<>>, 5, 3).buf \o <<1, 2, 3>>) \o push_header(<<>>, 6, 0).buf
CBufs == {TwoRecords, SubSeq(TwoRecords, 1, 10), push_header(<<>>, 7, 0).buf, <<>>}

BufLocs == {4096, 70000}          \* addresses a buffer may start at
EmptyLocs == {1, 8192}            \* addresses the empty slice &[] may have
Origins == {0, 4096, 4465, 4464, 70004}
SetNames == {"set"}
AttrNames == {"attr"}

\* failure locations handed to error_context: inside the buffer, at and
\* around the origin, and at the ends of the representable range
FailLocs ==
    {cloc, cloc + cpos, corig, corig + U16_MAX, corig + U16_MAX + 1}
    \cup (IF corig > 0 THEN {corig - 1} ELSE {})

Alive == cres.kind # "panic"

\* the generated decoder's step: chop_header(self.buf, &mut self.pos)
CChop ==
    /\ Alive
    /\ LET r == chop_header(cbuf, cpos)
       IN  /\ cres' = [op |-> "chop", kind |-> r.kind, rec |-> r,
                       pre |-> [buf |-> cbuf, pos |-> cpos, loc |-> cloc, orig |-> corig]]
           /\ cpos' = r.pos
    /\ UNCHANGED <<cbuf, cloc, corig, cpoisoned>>
    /\ UNCHANGED <<extraVars, buildVars, writerVars, readerVars, adapterVars>>

CErrorMissing(attrs, attr) ==
    /\ Alive
    /\ cres' = [op |-> "error_missing",
                kind |-> IF cfg_test THEN "panic" ELSE "ctx",
                ctx |-> error_missing(attrs, attr),
                args |-> [attrs |-> attrs, attr |-> attr, loc |-> cloc],
                pre |-> [buf |-> cbuf, pos |-> cpos, loc |-> cloc, orig |-> corig]]
    /\ UNCHANGED <<cbuf, cloc, cpos, corig, cpoisoned>>
    /\ UNCHANGED <<extraVars, buildVars, writerVars, readerVars, adapterVars>>

CErrorContext(attrs, attr, loc) ==
    /\ Alive
    /\ cbuf' = <<>>
    /\ cloc' \in EmptyLocs
    /\ cpoisoned' = TRUE
    /\ cres' = [op |-> "error_context",
                kind |-> IF cfg_test THEN "panic" ELSE "ctx",
                ctx |-> error_context(attrs, attr, loc),
                args |-> [attrs |-> attrs, attr |-> attr, loc |-> loc],
                pre |-> [buf |-> cbuf, pos |-> cpos, loc |-> cloc, orig |-> corig]]
    /\ UNCHANGED <<cpos, corig>>
    /\ UNCHANGED <<extraVars, buildVars, writerVars, readerVars, adapterVars>>

\* Iterable::new, Iterable::with_loc and Iterable::default
InitCursor ==
    /\ le \in BOOLEAN /\ overflow_checks = FALSE /\ cfg_test \in BOOLEAN
    /\ \/ /\ cbuf \in CBufs /\ cloc \in BufLocs /\ corig = cloc
       \/ /\ cbuf \in CBufs /\ cloc \in BufLocs /\ corig \in Origins
       \/ /\ cbuf = <<>> /\ cloc \in EmptyLocs /\ corig = 0
    /\ cpos = 0 /\ cres = NoCall /\ cpoisoned = FALSE
    /\ WriterIdle /\ ReaderIdle /\ AdapterIdle /\ ExtraIdle

NextCursor ==
    \/ CChop
    \/ \E attrs \in SetNames, attr \in AttrNames : CErrorMissing(attrs, attr)
    \/ \E attrs \in SetNames, attr \in {None} \cup {Some(a) : a \in AttrNames},
          loc \in FailLocs : CErrorContext(attrs, attr, loc)

SpecCursor == InitCursor /\ [][NextCursor]_vars

TypeOKCursor == cpos >= 0

(***************************************************************************)
(* Claims about the cursor                                                 *)
(***************************************************************************)
\* C7: once error_context has been called, get_buf is empty for good and a
\* further chop_header step on the cursor's buffer and stored position
\* returns None: it yields no record and does not fail.
C7_PoisonedEnds ==
    cpoisoned =>
        /\ get_buf = <<>>
        /\ cres.op = "chop" => cres.kind = "None"

\* the byte distance from origin to loc, or 0 when it is negative or above 65535
ClampedDistance(origin, loc) ==
    IF loc >= origin /\ loc - origin <= 65535 THEN loc - origin ELSE 0

\* C8: the offset of every error context the cursor builds is the distance
\* from the origin to the failure location when that distance is in
\* 0..65535, and 0 otherwise.
C8_OffsetClamped ==
    cres.op \in {"error_missing", "error_context"} =>
        /\ cres.ctx.offset = ClampedDistance(corig, cres.args.loc)
        /\ cres.ctx.offset \in 0..65535

C8_Witness ==
    /\ cres.op = "error_context"
    /\ cres.args.loc = corig + 65535
    /\ cres.ctx.offset = 65535

\* C10: in normal mode error_missing returns an AttrMissing context with
\* the given names and the clamped distance from the origin to the start
\* of the bytes not yet consumed (buffer start + position), and leaves
\* the cursor's buffer and position as they were.
C10_MissingAtPosition ==
    (cres.op = "error_missing" /\ ~cfg_test /\ ~cpoisoned) =>
        /\ cres.kind = "ctx"
        /\ cres.ctx.reason = "AttrMissing"
        /\ cres.ctx.attrs = cres.args.attrs
        /\ cres.ctx.attr = Some(cres.args.attr)
        /\ cres.ctx.offset = ClampedDistance(corig, cloc + cpos)
        /\ cbuf = cres.pre.buf /\ cpos = cres.pre.pos

\* C11: error_context gives ParsingError exactly when an attribute name is
\* passed and UnknownAttr exactly when none is; error_missing gives
\* AttrMissing with the attribute name present; without cfg!(test) both
\* return the context, with cfg!(test) both panic and return nothing; and
\* error_context has emptied the cursor's buffer in either case.
C11_ErrorOutcome ==
    /\ cres.op = "error_context" =>
          /\ cres.ctx.reason = "ParsingError" <=> cres.args.attr.some
          /\ cres.ctx.reason = "UnknownAttr" <=> ~cres.args.attr.some
          /\ cres.ctx.attr = cres.args.attr
          /\ get_buf = <<>>
    /\ cres.op = "error_missing" =>
          /\ cres.ctx.reason = "AttrMissing"
          /\ cres.ctx.attr.some /\ cres.ctx.attr.v = cres.args.attr
    /\ cres.op \in {"error_context", "error_missing"} =>
          /\ cres.ctx.attrs = cres.args.attrs
          /\ ~cfg_test => cres.kind = "ctx"
          /\ cfg_test => cres.kind = "panic"

\* an unknown attribute reported in a cfg!(test) build, after one record
C11_Witness ==
    /\ cres.op = "error_context" /\ cfg_test /\ cres.kind = "panic"
    /\ ~cres.args.attr.some /\ cres.ctx.reason = "UnknownAttr"
    /\ cres.pre.pos = 8 /\ cres.pre.buf # <<>> /\ cbuf = <<>>

\* the bytes of buf from pos on, none when pos is past the end
RemainingLen(buf, pos) == IF pos <= Len(buf) THEN Len(buf) - pos ELSE 0

\* C13: in every state of a cursor its position is at most the length of
\* its buffer, no call makes the remaining bytes more than they were, and
\* no call changes orig_loc.
C13_CursorInvariant ==
    /\ cpos <= Len(cbuf)
    /\ cres.op # "new" =>
          /\ RemainingLen(cbuf, cpos) <= RemainingLen(cres.pre.buf, cres.pre.pos)
          /\ corig = cres.pre.orig

(***************************************************************************)
(* Iterator adapters: MultiAttrIterable and ArrayIterable                  *)
(***************************************************************************)
Vals == {1, 2}
Ok(v) == [ok |-> TRUE, val |-> v]
Err == [ok |-> FALSE, val |-> 0]
Items == {Ok(v) : v \in Vals} \cup {Err}

NoneV == [some |-> FALSE, v |-> 0]
SomeV(x) == [some |-> TRUE, v |-> x]

\* self.inner.next(): the next item of the inner sequence, if any is left
inner_next ==
    IF aidx < Len(ainner)
    THEN [some |-> TRUE, item |-> ainner[aidx + 1], idx |-> aidx + 1]
    ELSE [some |-> FALSE, item |-> Err, idx |-> aidx]

\* (self.f)(val)
f(val) == IF val \in af THEN SomeV(val) ELSE NoneV

\* MultiAttrIterable::next; why records which match arm produced the result
MultiAttrIterable_next ==
    LET n == inner_next
    IN  IF n.some /\ n.item.ok
        THEN [res |-> f(n.item.val),
              why |-> IF f(n.item.val).some THEN "item" ELSE "projection",
              idx |-> n.idx]
        ELSE [res |-> NoneV, why |-> IF n.some THEN "err" ELSE "exhausted", idx |-> n.idx]

\* ArrayIterable::next
ArrayIterable_next ==
    LET n == inner_next
    IN  IF n.some /\ n.item.ok
        THEN [res |-> SomeV(n.item.val), why |-> "item", idx |-> n.idx]
        ELSE [res |-> NoneV, why |-> IF n.some THEN "err" ELSE "exhausted", idx |-> n.idx]

\* one pull on the adapter
APull ==
    /\ Len(aout) < MaxPulls
    /\ LET r == IF akind = "multi" THEN MultiAttrIterable_next ELSE ArrayIterable_next
       IN  /\ ares' = r.res
           /\ aidx' = r.idx
           /\ aout' = Append(aout, [res |-> r.res, why |-> r.why])
    /\ UNCHANGED <<akind, af, ainner>>
    /\ UNCHANGED <<extraVars, buildVars, writerVars, readerVars, cursorVars>>

\* MultiAttrIterable::new(inner, f) and ArrayIterable::new(inner)
InitAdapter ==
    /\ le = TRUE /\ overflow_checks = FALSE /\ cfg_test = FALSE
    /\ ainner \in SeqsUpTo(Items, MaxInner)
    /\ \/ akind = "multi" /\ af \in SUBSET Vals
       \/ akind = "array" /\ af = Vals
    /\ aidx = 0 /\ aout = <<>> /\ ares = NoneV
    /\ WriterIdle /\ ReaderIdle /\ CursorIdle /\ ExtraIdle

NextAdapter == APull

SpecAdapter == InitAdapter /\ [][NextAdapter]_vars

(***************************************************************************)
(* Claims about the adapters                                               *)
(***************************************************************************)
\* C6: once a pull has returned None because the inner sequence yielded
\* Err or the projection returned None, every later pull on the same
\* adapter returns None too.
C6_StopsAtFirstFailure ==
    \A i \in 1..Len(aout) : \A j \in (i + 1)..Len(aout) :
        aout[i].why \in {"err", "projection"} => ~aout[j].res.some

(***************************************************************************)
(* Alignment primitives on their own: nla_align_up and nla_type            *)
(***************************************************************************)
PAlignUp ==
    /\ palign = -1
    /\ palign' = nla_align_up(pin)
    /\ UNCHANGED <<pin, pagain, ptype>>
    /\ UNCHANGED <<twoVars, buildVars, writerVars, readerVars, cursorVars, adapterVars>>

\* nla_align_up applied to its own result
PAlignAgain ==
    /\ palign # -1 /\ pagain = -1
    /\ pagain' = nla_align_up(palign)
    /\ UNCHANGED <<pin, palign, ptype>>
    /\ UNCHANGED <<twoVars, buildVars, writerVars, readerVars, cursorVars, adapterVars>>

\* nla_type takes a u16
PNlaType ==
    /\ ptype = -1 /\ pin < U16
    /\ ptype' = nla_type(pin)
    /\ UNCHANGED <<pin, palign, pagain>>
    /\ UNCHANGED <<twoVars, buildVars, writerVars, readerVars, cursorVars, adapterVars>>

InitPrim ==
    /\ le = TRUE /\ overflow_checks = FALSE /\ cfg_test = FALSE
    /\ pin \in 0..MaxPrim
    /\ palign = -1 /\ pagain = -1 /\ ptype = -1
    /\ WriterIdle /\ ReaderIdle /\ CursorIdle /\ AdapterIdle /\ TwoIdle

NextPrim == PAlignUp \/ PAlignAgain \/ PNlaType

SpecPrim == InitPrim /\ [][NextPrim]_vars

Bit(x, i) == (x \div (2 ^ i)) % 2

\* C12: nla_align_up(n) is the smallest multiple of 4 that is >= n, so it
\* adds 0..3 and is idempotent; nla_type(t) is t with bits 14 and 15
\* cleared and bits 0..13 unchanged.
C12_AlignAndMask ==
    /\ palign # -1 =>
          /\ palign % 4 = 0
          /\ palign >= pin
          /\ palign - pin \in 0..3
    /\ pagain # -1 => pagain = palign
    /\ ptype # -1 =>
          /\ \A i \in 0..13 : Bit(ptype, i) = Bit(pin, i)
          /\ Bit(ptype, 14) = 0 /\ Bit(ptype, 15) = 0
          /\ ptype \in 0..16383

\* 0xC00A: both flag bits set, not a multiple of 4
C12_Witness ==
    /\ pin = 49162 /\ ptype = 10 /\ palign = 49164 /\ pagain = 49164

(***************************************************************************)
(* Two cursors over one source buffer.  A cursor's buf is a reference: it  *)
(* names a slice of memory ("src", or "empty" for &[]) whose bytes and     *)
(* address are looked up in the memory, so that a step of one cursor that  *)
(* touched the source would be seen by the other.                          *)
(***************************************************************************)
Cursors == {1, 2}

NoRec == NoneRes @@ [pos |-> 0]
NoCtx == [attrs |-> "", attr |-> None, offset |-> 0, reason |-> ""]

\* Iterable::with_loc(buf, orig_loc)
Iterable_with_loc(buf, orig_loc) ==
    [buf |-> buf, pos |-> 0, orig_loc |-> orig_loc]

\* Iterable::new(buf)
Iterable_new(heap, buf) == Iterable_with_loc(buf, heap[buf].loc)

\* Iterable::calc_offset(&self, loc)
Iterable_calc_offset(self, loc) ==
    LET orig == self.orig_loc
    IN  IF orig <= loc /\ loc - orig <= U16_MAX THEN loc - orig ELSE 0

\* the generated decoder's step on a cursor: chop_header(self.buf, &mut self.pos)
Iterable_chop_header(heap, self) ==
    LET r == chop_header(heap[self.buf].bytes, self.pos)
    IN  [heap |-> heap,
         self |-> [self EXCEPT !.pos = r.pos],
         ret |-> [kind |-> r.kind, rec |-> r, ctx |-> NoCtx]]

\* Iterable::error_missing(&self, attrs, attr)
Iterable_error_missing(heap, self, attrs, attr) ==
    [heap |-> heap,
     self |-> self,
     ret |-> [kind |-> IF cfg_test THEN "panic" ELSE "ctx",
              rec |-> NoRec,
              ctx |-> [attrs |-> attrs, attr |-> Some(attr),
                       offset |-> Iterable_calc_offset(self, heap[self.buf].loc),
                       reason |-> "AttrMissing"]]]

\* error_context that empties the referenced slice instead of rebinding self.buf
Iterable_error_context_inplace(heap, self, attrs, attr, loc) ==
    [heap |-> [heap EXCEPT ![self.buf].bytes = <<>>],
     self |-> self,
     ret |-> [kind |-> IF cfg_test THEN "panic" ELSE "ctx",
              rec |-> NoRec,
              ctx |-> [attrs |-> attrs, attr |-> attr,
                       offset |-> Iterable_calc_offset(self, loc),
                       reason |-> IF attr.some THEN "ParsingError"
                                               ELSE "UnknownAttr"]]]

\* Iterable::error_context(&mut self, attrs, attr, loc)
Iterable_error_context(heap, self, attrs, attr, loc) ==
    LET poisoned == [self EXCEPT !.buf = "empty"]
    IN  [heap |-> heap,
         self |-> poisoned,
         ret |-> [kind |-> IF cfg_test THEN "panic" ELSE "ctx",
                  rec |-> NoRec,
                  ctx |-> [attrs |-> attrs, attr |-> attr,
                           offset |-> Iterable_calc_offset(poisoned, loc),
                           reason |-> IF attr.some THEN "ParsingError"
                                                   ELSE "UnknownAttr"]]]

ChopCall == [op |-> "chop_header", attrs |-> "", attr |-> None, loc |-> 0]
MissingCall(attrs, attr) ==
    [op |-> "error_missing", attrs |-> attrs, attr |-> Some(attr), loc |-> 0]
ContextCall(attrs, attr, loc) ==
    [op |-> "error_context", attrs |-> attrs, attr |-> attr, loc |-> loc]

\* one call on a cursor
Apply(heap, self, call) ==
    CASE call.op = "chop_header" -> Iterable_chop_header(heap, self)
      [] call.op = "error_missing" ->
            Iterable_error_missing(heap, self, call.attrs, call.attr.v)
      [] call.op = "error_context" ->
            Iterable_error_context(heap, self, call.attrs, call.attr, call.loc)

\* the calls made on cursor i so far, and what they returned
Of(i) == SelectSeq(ttrace, LAMBDA e : e.cur = i)
Calls(i) == [k \in 1..Len(Of(i)) |-> Of(i)[k].call]
Yielded(i) == [k \in 1..Len(Of(i)) |-> Of(i)[k].ret]

\* a panic unwinds the thread that runs the cursor
Stopped(i) == Len(Of(i)) > 0 /\ Of(i)[Len(Of(i))].ret.kind = "panic"

TCall(i, call) ==
    /\ Len(ttrace) < MaxCalls
    /\ ~Stopped(i)
    /\ LET s == Apply(theap, tcur[i], call)
       IN  /\ theap' = s.heap
           /\ tcur' = [tcur EXCEPT ![i] = s.self]
           /\ ttrace' = Append(ttrace, [cur |-> i, call |-> call, ret |-> s.ret])
    /\ UNCHANGED tinit
    /\ UNCHANGED <<primVars, buildVars, writerVars, readerVars, cursorVars, adapterVars>>

TChop(i) == TCall(i, ChopCall)

TErrorMissing(i, attrs, attr) == TCall(i, MissingCall(attrs, attr))

\* the failure location is the record the cursor stands at
TErrorContext(i, attrs, attr) ==
    TCall(i, ContextCall(attrs, attr, theap["src"].loc + tcur[i].pos))

\* the source: two records, or the same cut inside the second header
TSources == {TwoRecords, SubSeq(TwoRecords, 1, 10)}
\* cursor 1 is Iterable::new(src); cursor 2 is Iterable::new(src), or the
\* cursor of a nested slice made by Iterable::with_loc(src, origin)
TOrigins == {4096, 4000}

InitTwo ==
    /\ le \in BOOLEAN /\ overflow_checks = FALSE /\ cfg_test \in BOOLEAN
    /\ \E src \in TSources, e \in EmptyLocs, o \in TOrigins :
          /\ theap = [src |-> [bytes |-> src, loc |-> 4096],
                      empty |-> [bytes |-> <<>>, loc |-> e]]
          /\ tcur = [i \in Cursors |->
                        IF i = 1 THEN Iterable_new(theap, "src")
                                 ELSE Iterable_with_loc("src", o)]
    /\ tinit = [heap |-> theap, cur |-> tcur]
    /\ ttrace = <<>>
    /\ WriterIdle /\ ReaderIdle /\ CursorIdle /\ AdapterIdle /\ PrimIdle

NextTwo ==
    \E i \in Cursors :
        \/ TChop(i)
        \/ \E attrs \in SetNames, attr \in AttrNames : TErrorMissing(i, attrs, attr)
        \/ \E attrs \in SetNames, attr \in {None} \cup {Some(a) : a \in AttrNames} :
              TErrorContext(i, attrs, attr)

SpecTwo == InitTwo /\ [][NextTwo]_vars

\* what a cursor returns for a list of calls when nothing else runs
RECURSIVE Replay(_, _, _)
Replay(heap, self, calls) ==
    IF calls = <<>> THEN <<>>
    ELSE LET s == Apply(heap, self, Head(calls))
         IN  <<s.ret>> \o Replay(s.heap, s.self, Tail(calls))

\* C16: decoding never modifies the source buffer, and in every
\* interleaving of the steps of two cursors over one buffer (chop_header
\* walks, error_missing, error_context with its poisoning) each cursor
\* returns the same records, error contexts and end-of-stream results as
\* it returns for the same calls when run alone.
C16_IndependentCursors ==
    /\ theap["src"] = tinit.heap["src"]
    /\ \A i \in Cursors :
          Yielded(i) = Replay(tinit.heap, tinit.cur[i], Calls(i))

\* cursor 1 returns a record and is poisoned; after that cursor 2 returns
\* both records of the source
C16_Witness ==
    /\ Len(ttrace) = 4
    /\ ttrace[1].cur = 1 /\ ttrace[1].ret.kind = "Some"
    /\ ttrace[2].cur = 1 /\ ttrace[2].call.op = "error_context"
    /\ tcur[1].buf = "empty"
    /\ ttrace[3].cur = 2 /\ ttrace[3].ret.kind = "Some" /\ ttrace[3].ret.rec.type = 5
    /\ ttrace[4].cur = 2 /\ ttrace[4].ret.kind = "Some" /\ ttrace[4].ret.rec.type = 6

====
